---- MODULE Spec2Model ----
(***************************************************************************)
(* Model of src/Handler.js: the fluent request validator `Handler`.        *)
(*                                                                         *)
(* JavaScript values are represented as follows.                           *)
(*   - a string whose characters matter (intent names, tokens) is a        *)
(*     sequence of one-character strings: "a-b" is <<"a", "-", "b">>;      *)
(*   - an optional field is a sequence of length 0 (undefined) or 1;       *)
(*   - an object used as a map (slots, session attributes) is a function   *)
(*     whose DOMAIN is the set of its own keys;                            *)
(*   - supportedInterfaces is the set of keys of the object;               *)
(*   - an argument that may be a string or an array is a record            *)
(*     [kind |-> "string" | "array", val |-> ...].                         *)
(* this.valid is a 1-based sequence, so this.valid[this.branch] is         *)
(* valid[branch + 1].                                                      *)
(***************************************************************************)
EXTENDS Naturals, Sequences, FiniteSets

VARIABLES request, attributes, supportedInterfaces, valid, branch,
          thrown, last, evals, results, ret,
          chain, order, script, firstResults

vars == <<request, attributes, supportedInterfaces, valid, branch,
          thrown, last, evals, results, ret,
          chain, order, script, firstResults>>

(* Bounds of the exploration. *)
MaxOr == 1
MaxCanHandle == 2

(***************************************************************************)
(* Input domains.                                                          *)
(***************************************************************************)
Types == {"IntentRequest", "Display.ElementSelected", "LaunchRequest"}

IntentNames == {<<"A">>, <<"A", "B">>}

Keys == {"name", "city"}

Interfaces == {"Display", "VideoApp"}

TokenArgs == {<<"a">>, <<"b">>}

Tokens == {<<>>, <<"a">>, <<"a", "-", "b">>, <<"b", "-", "a", "-", "b">>}

(* A slot object is represented by its optional `value`. *)
SlotObjects == {<<>>, << <<>> >>, << <<"S">> >>}

AttributeValues == {<<>>, << <<"S">> >>}

Maps(K, V) == UNION {[D -> V] : D \in SUBSET K}

Intents == [name : IntentNames, slots : {<<>>} \cup {<<m>> : m \in Maps(Keys, SlotObjects)}]

(* Requests as the platform shapes them: an intent request carries an      *)
(* intent, a list selection carries a token; either field may be missing.  *)
Requests ==
    {[type |-> "IntentRequest", intent |-> i, token |-> <<>>] :
        i \in {<<>>} \cup {<<x>> : x \in Intents}}
    \cup {[type |-> "Display.ElementSelected", intent |-> <<>>, token |-> t] :
        t \in {<<>>} \cup {<<x>> : x \in Tokens}}
    \cup {[type |-> "LaunchRequest", intent |-> <<>>, token |-> <<>>]}

AttributeMaps == Maps(Keys, AttributeValues)

(* Representative values, used where another input is the one explored. *)
FewRequests ==
    {r \in Requests :
        \/ r.type = "LaunchRequest"
        \/ r.token = << <<"a", "-", "b">> >>
        \/ /\ r.intent # <<>>
           /\ r.intent[1] = [name |-> <<"A">>,
                             slots |-> << [k \in {"name"} |-> << <<"S">> >>] >>]}

FewAttributeMaps == {[k \in {"name"} |-> << <<"S">> >>]}

FewInterfaceSets == {{"Display"}}

(* Array arguments: the lists of distinct names of S, in every order. *)
Lists(S) ==
    {l \in UNION {[1..n -> S] : n \in 0..Cardinality(S)} :
        \A i, j \in 1..Len(l) : i # j => l[i] # l[j]}

Str(s) == [kind |-> "string", val |-> s]
Arr(a) == [kind |-> "array", val |-> a]

IntentArgs == {Str(s) : s \in IntentNames} \cup {Arr(a) : a \in Lists(IntentNames)}

InterfaceArgs == {Str(s) : s \in Interfaces} \cup {Arr(a) : a \in Lists(Interfaces)}

NoArg == <<>>

(* What a call hands back: the instance, a boolean, or nothing. *)
This == [kind |-> "instance"]
Bool(b) == [kind |-> "boolean", val |-> b]
NoReturn == [kind |-> "none"]

(***************************************************************************)
(* JavaScript primitives.                                                  *)
(***************************************************************************)
(* String.prototype.includes: t occurs in s as a contiguous substring. *)
StringIncludes(s, t) ==
    \E i \in 0..Len(s) : i + Len(t) <= Len(s) /\ SubSeq(s, i + 1, i + Len(t)) = t

(* Array.prototype.includes: x is an element of a. *)
ArrayIncludes(a, x) == \E i \in 1..Len(a) : a[i] = x

(* x.includes(y), dispatched on what x is. *)
Includes(x, y) ==
    IF x.kind = "string" THEN StringIncludes(x.val, y) ELSE ArrayIncludes(x.val, y)

(* s.split("-")[0]: the part of s before its first "-", all of s if none. *)
SplitFirst(s) ==
    LET dashes == {i \in 1..Len(s) : s[i] = "-"}
    IN  IF dashes = {} THEN s
        ELSE SubSeq(s, 1, (CHOOSE i \in dashes : \A j \in dashes : i <= j) - 1)

(* Truthiness of an optional string: neither undefined nor "". *)
Truthy(v) == v # <<>> /\ v[1] # <<>>

(***************************************************************************)
(* constructor: the three inputs are stored, valid = [true], branch = 0.   *)
(* The remaining variables are history: `thrown` is set when a call ends   *)
(* in a TypeError (the chain expression is abandoned there), `last` is the *)
(* latest call, `evals[b]` the set of outcomes of the predicates called in *)
(* branch b, `results` the values canHandle() returned since the latest    *)
(* chainable call, `ret` what the latest call returned.                    *)
(*                                                                         *)
(* The caller is either free to make any call (chain = <<>>) or evaluates  *)
(* one chain expression: `chain` holds the expression, `order` the         *)
(* arrangement of it being run, `script` the calls still to make, and      *)
(* `firstResults` what canHandle() returned for the first arrangement      *)
(* once a second validator runs another one.                               *)
(***************************************************************************)
Constructed ==
    /\ valid = <<TRUE>>
    /\ branch = 0
    /\ thrown = FALSE
    /\ last = [op |-> "constructor", arg |-> NoArg]
    /\ evals = <<{}>>
    /\ results = <<>>
    /\ ret = This

Unscripted ==
    /\ chain = <<>>
    /\ order = <<>>
    /\ script = <<>>
    /\ firstResults = <<>>

(* Every request, with representative session attributes and interfaces. *)
Init ==
    /\ request \in Requests
    /\ attributes \in FewAttributeMaps
    /\ supportedInterfaces \in FewInterfaceSets
    /\ Constructed
    /\ Unscripted

(* Every session-attribute map and interface set, with representative      *)
(* requests.                                                               *)
InitSession ==
    /\ request \in FewRequests
    /\ attributes \in AttributeMaps
    /\ supportedInterfaces \in SUBSET Interfaces
    /\ Constructed
    /\ Unscripted

(***************************************************************************)
(* Chain expressions.  A chain is written as the sequence of the names of  *)
(* the methods it calls, "or" included, each predicate with the argument   *)
(* ChainArg gives it.                                                      *)
(***************************************************************************)
ChainArg(op) ==
    CASE op = "isType" -> "IntentRequest"
      [] op = "isIntent" -> Arr(<< <<"A">> >>)
      [] op = "isListSelect" -> <<"a">>
      [] op = "hasAttributes" -> <<"name">>
      [] op = "hasSlots" -> <<"name">>
      [] op = "doesSupport" -> Str("Display")
      [] op = "doesNotSupport" -> Str("Display")
      [] OTHER -> NoArg

(* The predicates one chain expression draws from. *)
ChainGroups ==
    {{"isType", "isIntent", "hasSlots"},
     {"isListSelect", "hasAttributes", "doesSupport"},
     {"doesNotSupport", "isType", "hasAttributes"}}

(* The chains of a group: each predicate at most once, at most MaxOr       *)
(* or() calls anywhere between them.                                       *)
ChainsOf(G) ==
    {c \in UNION {[1..n -> G \cup {"or"}] : n \in 0..(Cardinality(G) + MaxOr)} :
        /\ Cardinality({i \in 1..Len(c) : c[i] = "or"}) <= MaxOr
        /\ \A i, j \in 1..Len(c) : (i # j /\ c[i] = c[j]) => c[i] = "or"}

Chains == UNION {ChainsOf(G) : G \in ChainGroups}

(* The OR-separated branches of a chain. *)
RECURSIVE Split(_)
Split(c) ==
    LET ors == {i \in 1..Len(c) : c[i] = "or"}
    IN  IF ors = {} THEN <<c>>
        ELSE LET k == CHOOSE i \in ors : \A j \in ors : i <= j
             IN  <<SubSeq(c, 1, k - 1)>> \o Split(SubSeq(c, k + 1, Len(c)))

Perms(n) == {f \in [1..n -> 1..n] : \A i, j \in 1..n : f[i] = f[j] => i = j}

PermsOfSeq(b) == {[i \in 1..Len(b) |-> b[f[i]]] : f \in Perms(Len(b))}

Calls(b) == {b[i] : i \in 1..Len(b)}

(* Every chain got by permuting the calls inside branches and permuting    *)
(* whole branches: the same calls, grouped into the same branches.         *)
Rearrangements(c) ==
    {p \in PermsOfSeq(c) :
        \E f \in Perms(Len(Split(c))) :
            \A i \in 1..Len(Split(c)) :
                Calls(Split(p)[i]) = Calls(Split(c)[f[i]])}

(* The caller makes this call now: any call when free, the next call of   *)
(* the chain expression otherwise.                                         *)
Calling(op, arg) ==
    /\ \/ chain = <<>>
       \/ /\ script # <<>>
          /\ Head(script) = op
          /\ arg = ChainArg(op)
    /\ script' = IF chain = <<>> THEN script ELSE Tail(script)
    /\ UNCHANGED <<chain, order, firstResults>>

(* Variant: the failure is written to the first branch. *)
setValidFirstBranch(v) ==
    IF ~v THEN [valid EXCEPT ![1] = FALSE] ELSE valid

(* Variant: the outcome is assigned, so a later pass clears a failure. *)
setValidAssign(v) == [valid EXCEPT ![branch + 1] = v]

(* setValid(valid): the new value of this.valid. *)
setValid(v) ==
    IF ~v THEN [valid EXCEPT ![branch + 1] = FALSE] ELSE valid

(* `return this` at the end of setValid. *)
setValidReturn == This

(* History kept by every predicate call that returns. *)
Returned(op, arg, outcome, returned) ==
    /\ ~thrown
    /\ Calling(op, arg)
    /\ ret' = returned
    /\ last' = [op |-> op, arg |-> arg]
    /\ evals' = [evals EXCEPT ![branch + 1] = @ \cup {outcome}]
    /\ results' = <<>>
    /\ UNCHANGED <<request, attributes, supportedInterfaces, branch, thrown>>

(* A call that ends in a TypeError: nothing is assigned. *)
Threw(op, arg) ==
    /\ ~thrown
    /\ Calling(op, arg)
    /\ thrown' = TRUE
    /\ ret' = NoReturn
    /\ last' = [op |-> op, arg |-> arg]
    /\ UNCHANGED <<request, attributes, supportedInterfaces, valid, branch,
                   evals, results>>

(***************************************************************************)
(* or()                                                                    *)
(***************************************************************************)
(* Variant: the current branch is reset to true, the cursor stays. *)
orWithoutAdvance ==
    /\ ~thrown
    /\ Calling("or", NoArg)
    /\ branch < MaxOr
    /\ branch' = branch
    /\ valid' = [valid EXCEPT ![branch + 1] = TRUE]
    /\ evals' = Append(evals, {})
    /\ last' = [op |-> "or", arg |-> NoArg]
    /\ ret' = This
    /\ results' = <<>>
    /\ UNCHANGED <<request, attributes, supportedInterfaces, thrown>>

(* Variant: the new branch starts as failed. *)
orStartingFalse ==
    /\ ~thrown
    /\ Calling("or", NoArg)
    /\ branch < MaxOr
    /\ branch' = branch + 1
    /\ valid' = Append(valid, FALSE)
    /\ evals' = Append(evals, {})
    /\ last' = [op |-> "or", arg |-> NoArg]
    /\ ret' = This
    /\ results' = <<>>
    /\ UNCHANGED <<request, attributes, supportedInterfaces, thrown>>

or ==
    /\ ~thrown
    /\ Calling("or", NoArg)
    /\ branch < MaxOr
    /\ branch' = branch + 1
    /\ valid' = [i \in 1..(branch' + 1) |-> IF i = branch' + 1 THEN TRUE ELSE valid[i]]
    /\ evals' = Append(evals, {})
    /\ last' = [op |-> "or", arg |-> NoArg]
    /\ ret' = This
    /\ results' = <<>>
    /\ UNCHANGED <<request, attributes, supportedInterfaces, thrown>>

(***************************************************************************)
(* canHandle()                                                             *)
(***************************************************************************)
canHandleResult == ArrayIncludes(valid, TRUE)

(* Variant: reading the decision consumes the current branch. *)
canHandleConsuming ==
    /\ ~thrown
    /\ Calling("canHandle", NoArg)
    /\ Len(results) < MaxCanHandle
    /\ results' = Append(results, canHandleResult)
    /\ valid' = [valid EXCEPT ![branch + 1] = FALSE]
    /\ last' = [op |-> "canHandle", arg |-> NoArg]
    /\ ret' = Bool(canHandleResult)
    /\ UNCHANGED <<request, attributes, supportedInterfaces, branch, thrown, evals>>

canHandle ==
    /\ ~thrown
    /\ Calling("canHandle", NoArg)
    /\ Len(results) < MaxCanHandle
    /\ results' = Append(results, canHandleResult)
    /\ last' = [op |-> "canHandle", arg |-> NoArg]
    /\ ret' = Bool(canHandleResult)
    /\ UNCHANGED <<request, attributes, supportedInterfaces, valid, branch,
                   thrown, evals>>

(***************************************************************************)
(* isType(type)                                                            *)
(***************************************************************************)
isTypeValid(type) == request.type = type

isType(type) ==
    /\ valid' = setValid(isTypeValid(type))
    /\ Returned("isType", type, isTypeValid(type), setValidReturn)

(***************************************************************************)
(* isIntent(intents)                                                       *)
(***************************************************************************)
(* `!intents.constructor === Array` is `(!intents.constructor) === Array`: *)
(* a boolean compared with the Array function, false for every argument.   *)
isIntentWraps(intents) == FALSE

isIntentNormalise(intents) ==
    IF isIntentWraps(intents) THEN Arr(<<intents.val>>) ELSE intents

(* Reading this.request.intent.name with no intent is a TypeError; the && *)
(* reaches it only when the type is "IntentRequest".                       *)
isIntentThrows(intents) ==
    request.type = "IntentRequest" /\ request.intent = <<>>

isIntentValid(intents) ==
    /\ request.type = "IntentRequest"
    /\ Includes(isIntentNormalise(intents), request.intent[1].name)

isIntent(intents) ==
    IF isIntentThrows(intents)
    THEN Threw("isIntent", intents)
    ELSE /\ valid' = setValid(isIntentValid(intents))
         /\ Returned("isIntent", intents, isIntentValid(intents), setValidReturn)

(***************************************************************************)
(* isListSelect(token)                                                     *)
(***************************************************************************)
(* Variant: the whole token is compared. *)
isListSelectWholeToken(token) ==
    /\ request.type = "Display.ElementSelected"
    /\ Truthy(request.token)
    /\ request.token[1] = token

isListSelectValid(token) ==
    /\ request.type = "Display.ElementSelected"
    /\ Truthy(request.token)
    /\ SplitFirst(request.token[1]) = token

isListSelect(token) ==
    /\ valid' = setValid(isListSelectValid(token))
    /\ Returned("isListSelect", token, isListSelectValid(token), setValidReturn)

(***************************************************************************)
(* hasAttributes(attributes): FALSE when the loop leaves through           *)
(* setValid(false), TRUE when it runs to `return this`.                    *)
(***************************************************************************)
(* Variant: the stored value is tested instead of the key. *)
hasAttributesLoopTruthy(attrs, i) ==
    \A j \in i..Len(attrs) :
        attrs[j] \in DOMAIN attributes /\ Truthy(attributes[attrs[j]])

RECURSIVE hasAttributesLoop(_, _)
hasAttributesLoop(attrs, i) ==
    IF i > Len(attrs) THEN TRUE
    ELSE IF attrs[i] \notin DOMAIN attributes THEN FALSE
    ELSE hasAttributesLoop(attrs, i + 1)

hasAttributesPasses(attrs) == hasAttributesLoop(attrs, 1)

hasAttributes(attrs) ==
    /\ valid' = IF hasAttributesPasses(attrs) THEN valid ELSE setValid(FALSE)
    /\ Returned("hasAttributes", attrs, hasAttributesPasses(attrs),
                IF hasAttributesPasses(attrs) THEN This ELSE setValidReturn)

(***************************************************************************)
(* hasSlots(slots)                                                         *)
(***************************************************************************)
(* Variant: the slot's value is not looked at. *)
hasSlotsLoopNoValue(intentSlots, slots, i) ==
    \A j \in i..Len(slots) : slots[j] \in DOMAIN intentSlots

RECURSIVE hasSlotsLoop(_, _, _)
hasSlotsLoop(intentSlots, slots, i) ==
    IF i > Len(slots) THEN TRUE
    ELSE IF slots[i] \notin DOMAIN intentSlots THEN FALSE
    ELSE IF ~Truthy(intentSlots[slots[i]]) THEN FALSE
    ELSE hasSlotsLoop(intentSlots, slots, i + 1)

hasSlotsPasses(slots) ==
    IF request.intent = <<>> \/ request.intent[1].slots = <<>> THEN FALSE
    ELSE hasSlotsLoop(request.intent[1].slots[1], slots, 1)

hasSlots(slots) ==
    /\ valid' = IF hasSlotsPasses(slots) THEN valid ELSE setValid(FALSE)
    /\ Returned("hasSlots", slots, hasSlotsPasses(slots),
                IF hasSlotsPasses(slots) THEN This ELSE setValidReturn)

(***************************************************************************)
(* doesSupport(displayInterfaces) and doesNotSupport(displayInterfaces)    *)
(***************************************************************************)
(* `displayInterfaces.constructor !== Array` wraps a single name. *)
doesSupportNormalise(displayInterfaces) ==
    IF displayInterfaces.kind # "array"
    THEN <<displayInterfaces.val>>
    ELSE displayInterfaces.val

doesNotSupportNormalise(displayInterfaces) ==
    IF displayInterfaces.kind # "array"
    THEN <<displayInterfaces.val>>
    ELSE displayInterfaces.val

(* Variant: one supported interface is enough. *)
doesSupportLoopAny(list, i) ==
    i > Len(list) \/ \E j \in i..Len(list) : list[j] \in supportedInterfaces

RECURSIVE doesSupportLoop(_, _)
doesSupportLoop(list, i) ==
    IF i > Len(list) THEN TRUE
    ELSE IF ~(list[i] \in supportedInterfaces) THEN FALSE
    ELSE doesSupportLoop(list, i + 1)

doesSupportPasses(displayInterfaces) ==
    doesSupportLoop(doesSupportNormalise(displayInterfaces), 1)

doesSupport(displayInterfaces) ==
    /\ valid' = IF doesSupportPasses(displayInterfaces) THEN valid ELSE setValid(FALSE)
    /\ Returned("doesSupport", displayInterfaces, doesSupportPasses(displayInterfaces),
                IF doesSupportPasses(displayInterfaces) THEN This ELSE setValidReturn)

(* Variant: the branch fails only when every listed interface is supported. *)
doesNotSupportLoopAll(list, i) ==
    i > Len(list) \/ \E j \in i..Len(list) : list[j] \notin supportedInterfaces

RECURSIVE doesNotSupportLoop(_, _)
doesNotSupportLoop(list, i) ==
    IF i > Len(list) THEN TRUE
    ELSE IF list[i] \in supportedInterfaces THEN FALSE
    ELSE doesNotSupportLoop(list, i + 1)

doesNotSupportPasses(displayInterfaces) ==
    doesNotSupportLoop(doesNotSupportNormalise(displayInterfaces), 1)

doesNotSupport(displayInterfaces) ==
    /\ valid' = IF doesNotSupportPasses(displayInterfaces) THEN valid ELSE setValid(FALSE)
    /\ Returned("doesNotSupport", displayInterfaces, doesNotSupportPasses(displayInterfaces),
                IF doesNotSupportPasses(displayInterfaces) THEN This ELSE setValidReturn)

(***************************************************************************)
(* The chain: any call may follow any other on the same instance.          *)
(***************************************************************************)
Next ==
    \/ \E type \in Types : isType(type)
    \/ \E intents \in IntentArgs : isIntent(intents)
    \/ \E token \in TokenArgs : isListSelect(token)
    \/ \E attrs \in Lists(Keys) : hasAttributes(attrs)
    \/ \E slots \in Lists(Keys) : hasSlots(slots)
    \/ \E displayInterfaces \in InterfaceArgs : doesSupport(displayInterfaces)
    \/ \E displayInterfaces \in InterfaceArgs : doesNotSupport(displayInterfaces)
    \/ or
    \/ canHandle

Spec == Init /\ [][Next]_vars

SpecSession == InitSession /\ [][Next]_vars

(***************************************************************************)
(* Two validators built from the same input run two arrangements of one    *)
(* chain expression, each ending in canHandle().                           *)
(***************************************************************************)
InitOrder ==
    /\ request \in FewRequests \cup {[type |-> "IntentRequest", intent |-> <<>>, token |-> <<>>]}
    /\ attributes \in FewAttributeMaps
    /\ supportedInterfaces \in SUBSET {"Display"}
    /\ Constructed
    /\ \E c \in Chains :
           /\ chain = <<c>>
           /\ order = c
           /\ script = c \o <<"canHandle">>
    /\ firstResults = <<>>

(* constructor, again with the same input, for another arrangement. *)
SecondRun ==
    /\ ~thrown
    /\ chain # <<>>
    /\ script = <<>>
    /\ firstResults = <<>>
    /\ results # <<>>
    /\ firstResults' = results
    /\ \E c \in Rearrangements(chain[1]) :
           /\ order' = c
           /\ script' = c \o <<"canHandle">>
    /\ valid' = <<TRUE>>
    /\ branch' = 0
    /\ last' = [op |-> "constructor", arg |-> NoArg]
    /\ evals' = <<{}>>
    /\ results' = <<>>
    /\ ret' = This
    /\ UNCHANGED <<request, attributes, supportedInterfaces, thrown, chain>>

NextOrder == Next \/ SecondRun

SpecOrder == InitOrder /\ [][NextOrder]_vars

(***************************************************************************)
(* Vocabulary of the properties.                                           *)
(***************************************************************************)
(* Value of the current branch, this.valid[this.branch]. *)
Current == valid[branch + 1]

(* The names an argument lists, whether it is one name or an array. *)
NamesOf(arg) ==
    IF arg.kind = "string" THEN {arg.val} ELSE {arg.val[i] : i \in 1..Len(arg.val)}

(* Every predicate called in branch b evaluated true. *)
AllPassed(b) == FALSE \notin evals[b]

LastResult == results[Len(results)]

(* The part of s before its first "-". *)
BeforeDash(s) ==
    LET n == CHOOSE k \in 0..Len(s) :
                 /\ \A i \in 1..k : s[i] # "-"
                 /\ (k = Len(s) \/ s[k + 1] = "-")
    IN  [i \in 1..n |-> s[i]]

(***************************************************************************)
(* C1: in a chain with one or more or() calls, canHandle() returns true    *)
(* exactly when some branch has all of its predicates evaluating true.     *)
(***************************************************************************)
OrChainDecision ==
    (branch >= 1 /\ results # <<>>) =>
        (LastResult <=> \E b \in 1..Len(evals) : AllPassed(b))

(* canHandle() returned true after an earlier branch failed and a later   *)
(* one passed a predicate.                                                 *)
OrChainDecisionWitness ==
    /\ branch >= 1
    /\ results # <<>>
    /\ LastResult = TRUE
    /\ evals[1] = {TRUE, FALSE}
    /\ evals[branch + 1] = {TRUE}

(***************************************************************************)
(* C2: in a chain with no or() call, canHandle() returns true exactly      *)
(* when every predicate of the chain evaluated true.                       *)
(***************************************************************************)
SingleBranchDecision ==
    (branch = 0 /\ results # <<>>) => (LastResult <=> AllPassed(1))

(* canHandle() returned false for a chain in which a predicate passed and *)
(* another failed.                                                         *)
SingleBranchDecisionWitness ==
    /\ branch = 0
    /\ results # <<>>
    /\ LastResult = FALSE
    /\ evals[1] = {TRUE, FALSE}

(***************************************************************************)
(* C3: isIntent, given one name or a list of names, passes exactly when    *)
(* the request type is "IntentRequest" and the request's intent name is    *)
(* one of the names; any other intent name fails the current branch.       *)
(* Stated for the calls that return.                                       *)
(***************************************************************************)
IsIntentClaim(intents) ==
    /\ request.type = "IntentRequest"
    /\ request.intent # <<>>
    /\ request.intent[1].name \in NamesOf(intents)

IsIntentMatchesMembership ==
    [][(last'.op = "isIntent" /\ ~thrown') =>
           (valid'[branch + 1] <=> (Current /\ IsIntentClaim(last'.arg)))]_vars

(***************************************************************************)
(* C4: no predicate call ever throws, whatever fields the request lacks.   *)
(***************************************************************************)
NoPredicateThrows == ~thrown

(***************************************************************************)
(* C5: within a branch, a failing predicate call leaves the branch false,  *)
(* and a false branch is still false after any step that is not or().      *)
(***************************************************************************)
BranchLatch ==
    [][branch' = branch =>
           (((~Current) \/ (FALSE \in evals'[branch + 1] /\ evals' # evals))
                => ~valid'[branch + 1])]_vars

(* A predicate that evaluates true was the latest call of a branch that   *)
(* had already failed, and the branch is false.                            *)
BranchLatchWitness ==
    /\ last.op = "isType"
    /\ last.arg = request.type
    /\ evals[branch + 1] = {TRUE, FALSE}
    /\ ~Current

(***************************************************************************)
(* C6: canHandle() leaves the branch array and the cursor unchanged, and   *)
(* returns what the previous canHandle() returned when no chainable call   *)
(* came in between.                                                        *)
(***************************************************************************)
CanHandleIdempotent ==
    [][last'.op = "canHandle" =>
           /\ valid' = valid
           /\ branch' = branch
           /\ (results # <<>> => results'[Len(results')] = LastResult)]_vars

(* Two canHandle() calls in a row have returned. *)
CanHandleIdempotentWitness ==
    /\ last.op = "canHandle"
    /\ Len(results) >= 2
    /\ \E b \in 1..Len(evals) : evals[b] # {}

(***************************************************************************)
(* C7: hasSlots(slots) leaves the current branch passing exactly when the  *)
(* request has an intent with a slots mapping in which every listed slot   *)
(* exists and has a non-empty value; otherwise it fails the branch.        *)
(***************************************************************************)
SlotsFilled(slots) ==
    /\ request.intent # <<>>
    /\ request.intent[1].slots # <<>>
    /\ \A i \in 1..Len(slots) :
           /\ slots[i] \in DOMAIN request.intent[1].slots[1]
           /\ request.intent[1].slots[1][slots[i]] \notin {<<>>, << <<>> >>}

HasSlotsExact ==
    [][last'.op = "hasSlots" =>
           (valid'[branch + 1] <=> (Current /\ SlotsFilled(last'.arg)))]_vars

(* hasSlots passed for two different slot names. *)
HasSlotsExactWitness ==
    /\ last.op = "hasSlots"
    /\ Len(last.arg) = 2
    /\ last.arg[1] # last.arg[2]
    /\ Current

(***************************************************************************)
(* C8: hasAttributes(attributes) leaves the current branch passing exactly *)
(* when every listed name is a key of the session attributes, whatever     *)
(* the value under the key and whatever slots the request has.             *)
(***************************************************************************)
HasAttributesExact ==
    [][last'.op = "hasAttributes" =>
           (valid'[branch + 1] <=>
               (Current /\ \A i \in 1..Len(last'.arg) :
                              last'.arg[i] \in DOMAIN attributes))]_vars

(* hasAttributes passed for a key that holds no value, on a request with  *)
(* no slot of that name.                                                   *)
HasAttributesExactWitness ==
    /\ last.op = "hasAttributes"
    /\ Current
    /\ \E i \in 1..Len(last.arg) :
           /\ attributes[last.arg[i]] = <<>>
           /\ \/ request.intent = <<>>
              \/ request.intent[1].slots = <<>>
              \/ last.arg[i] \notin DOMAIN request.intent[1].slots[1]

(***************************************************************************)
(* C9: isListSelect(token) passes exactly when the request type is         *)
(* "Display.ElementSelected", the request has a non-empty token and the    *)
(* part of it before the first "-" equals the given token; otherwise the   *)
(* current branch is false.                                                *)
(***************************************************************************)
ListSelectClaim(token) ==
    /\ request.type = "Display.ElementSelected"
    /\ request.token # <<>>
    /\ request.token[1] # <<>>
    /\ BeforeDash(request.token[1]) = token

IsListSelectExact ==
    [][last'.op = "isListSelect" =>
           (valid'[branch + 1] <=> (Current /\ ListSelectClaim(last'.arg)))]_vars

(* isListSelect passed on a token that has a choice after the "-". *)
IsListSelectExactWitness ==
    /\ last.op = "isListSelect"
    /\ Current
    /\ Len(request.token[1]) > Len(last.arg)

(***************************************************************************)
(* C10: doesSupport(interfaces), given one name or a list, leaves the      *)
(* current branch passing exactly when every listed name is a member of    *)
(* the supported interfaces.                                               *)
(***************************************************************************)
DoesSupportExact ==
    [][last'.op = "doesSupport" =>
           (valid'[branch + 1] <=>
               (Current /\ NamesOf(last'.arg) \subseteq supportedInterfaces))]_vars

(* doesSupport failed a passing branch on a list whose first name is      *)
(* supported and whose second is not.                                      *)
DoesSupportExactWitness ==
    /\ last.op = "doesSupport"
    /\ last.arg.kind = "array"
    /\ Len(last.arg.val) = 2
    /\ last.arg.val[1] \in supportedInterfaces
    /\ last.arg.val[2] \notin supportedInterfaces
    /\ evals[branch + 1] = {FALSE}
    /\ ~Current

(***************************************************************************)
(* C11: doesNotSupport(interfaces), given one name or a list, leaves the   *)
(* current branch passing exactly when none of the listed names is a       *)
(* member of the supported interfaces.                                     *)
(***************************************************************************)
DoesNotSupportExact ==
    [][last'.op = "doesNotSupport" =>
           (valid'[branch + 1] <=>
               (Current /\ NamesOf(last'.arg) \cap supportedInterfaces = {}))]_vars

(* doesNotSupport failed a passing branch on a list whose first name is   *)
(* not supported and whose second is.                                      *)
DoesNotSupportExactWitness ==
    /\ last.op = "doesNotSupport"
    /\ last.arg.kind = "array"
    /\ Len(last.arg.val) = 2
    /\ last.arg.val[1] \notin supportedInterfaces
    /\ last.arg.val[2] \in supportedInterfaces
    /\ evals[branch + 1] = {FALSE}
    /\ ~Current

(***************************************************************************)
(* C12: every chainable operation returns the validator it was called on,  *)
(* and canHandle() returns a boolean.                                      *)
(***************************************************************************)
ChainableOps ==
    {"isType", "isIntent", "isListSelect", "hasAttributes", "hasSlots",
     "doesSupport", "doesNotSupport", "or"}

ChainableReturnsThis ==
    /\ last.op \in ChainableOps => ret.kind = "instance"
    /\ last.op = "canHandle" => (ret.kind = "boolean" /\ ret.val \in BOOLEAN)

(***************************************************************************)
(* C13: the validator starts with one branch, true, and cursor 0; in every *)
(* reachable state there is one entry per or() call plus one, the cursor   *)
(* is the index of the last entry and every entry is a boolean; the cursor *)
(* never decreases.  Len(evals) - 1 is the number of or() calls made.      *)
(***************************************************************************)
BranchArrayShape ==
    /\ Len(valid) = 1 + (Len(evals) - 1)
    /\ branch = Len(valid) - 1
    /\ \A i \in 1..Len(valid) : valid[i] \in BOOLEAN

BranchCountInvariant ==
    /\ (valid = <<TRUE>> /\ branch = 0)
    /\ []BranchArrayShape
    /\ [][branch' >= branch]_vars

(* or() was called after the first branch had failed. *)
BranchCountInvariantWitness ==
    /\ last.op = "or"
    /\ branch = 1
    /\ Len(valid) = 2
    /\ valid[1] = FALSE

(***************************************************************************)
(* C14: a predicate call changes at most the entry of the current branch   *)
(* and leaves the earlier entries, the cursor and the three stored inputs  *)
(* unchanged; or() advances the cursor, appends one entry set to true and  *)
(* leaves everything else unchanged.                                       *)
(***************************************************************************)
PredicateOps == ChainableOps \ {"or"}

InputsUnchanged ==
    UNCHANGED <<request, attributes, supportedInterfaces>>

FrameOfCalls ==
    [][/\ last'.op \in PredicateOps =>
              /\ Len(valid') = Len(valid)
              /\ \A i \in 1..branch : valid'[i] = valid[i]
              /\ branch' = branch
              /\ InputsUnchanged
       /\ last'.op = "or" =>
              /\ branch' = branch + 1
              /\ valid' = Append(valid, TRUE)
              /\ InputsUnchanged]_vars

(* A predicate failed the second branch and the first is still true. *)
FrameOfCallsWitness ==
    /\ last.op \in PredicateOps
    /\ branch >= 1
    /\ valid[1] = TRUE
    /\ evals[branch + 1] = {FALSE}
    /\ ~Current

BothRunsDone ==
    /\ chain # <<>>
    /\ firstResults # <<>>
    /\ script = <<>>
    /\ results # <<>>

OrderIndependent == BothRunsDone => results = firstResults

(* Both runs returned for a chain of two branches whose second arrangement *)
(* swaps the branches; a predicate failed and another passed.              *)
OrderIndependentWitness ==
    /\ BothRunsDone
    /\ order # chain[1]
    /\ Len(Split(order)) = 2
    /\ Split(order)[1] = Split(chain[1])[2]
    /\ Split(order)[1] # Split(order)[2]
    /\ \E b \in 1..Len(evals) : FALSE \in evals[b]
    /\ \E b \in 1..Len(evals) : TRUE \in evals[b]

====
